---- MODULE Spec2Model ----
(***************************************************************************)
(* Model of the golf shot pipeline of golf_physics: compute_impact,        *)
(* simulate_flight, simulate_bounce_and_roll and                           *)
(* CompleteGolfSim.simulate_shot.                                          *)
(*                                                                         *)
(* The program computes in floating point.  The model computes in fixed    *)
(* point, every division rounding to the nearest unit:                     *)
(*   lengths        mm            velocities     mm/s                      *)
(*   accelerations  mm/s^2        time           ms                        *)
(*   spin           mrad/s        spin in RPM    0.1 RPM                   *)
(*   mass           1e-5 kg       radius         1e-5 m                    *)
(*   coefficients   1e-6 (drag, lift) or 1e-3 (friction, restitution)      *)
(*   forces         1e-6 N        yards          1e-3 yd                   *)
(*   temperature    0.1 C         humidity       percent                   *)
(***************************************************************************)
EXTENDS Integers, Sequences, FiniteSets, TLC

\* ------------------------------------------------------------------ bounds

\* flight_max_steps of the simulator (1000 in __init__), bounded for the check
FlightMaxSteps == 40
\* roll_max_steps of the simulator (2000 in __init__), bounded for the check
RollMaxSteps == 40
\* how many passes of the while loop of FlightModule.simulate are followed
EulerHorizon == 20
\* how many rows the file at output_csv holds before generate_massive_data
MaxOldRows == 4

\* ------------------------------------------------------- fixed-point helpers

Abs(a) == IF a >= 0 THEN a ELSE -a

RoundNat(a, b) == (a \div b) + (IF 2 * (a % b) >= b THEN 1 ELSE 0)

\* a / b rounded to the nearest unit, symmetric about 0 (b > 0)
RDiv(a, b) == IF a >= 0 THEN RoundNat(a, b) ELSE -RoundNat(-a, b)

RECURSIVE IsqrtIter(_, _)
IsqrtIter(n, x) ==
    LET y == (x + n \div x) \div 2
    IN  IF y >= x THEN x ELSE IsqrtIter(n, y)

\* math.sqrt on a non-negative integer, rounded down
Isqrt(n) == IF n <= 0 THEN 0 ELSE IsqrtIter(n, IF n < 46341 THEN n ELSE 46341)

\* math.cos(math.radians(d)) and math.sin(math.radians(d)), in 1e-3, on the
\* angles the inputs use
Angles == {-90, -4, 0, 9, 10, 30, 60, 80, 90, 180}

cos_milli(d) ==
    CASE d = 0 -> 1000 [] d = 10 -> 985 [] d = 30 -> 866 [] d = 60 -> 500
      [] d = 80 -> 174 [] d = 90 -> 0 [] d = 180 -> -1000 [] d = -90 -> 0
      [] d = 9 -> 988 [] d = -4 -> 998

sin_milli(d) ==
    CASE d = 0 -> 0 [] d = 10 -> 174 [] d = 30 -> 500 [] d = 60 -> 866
      [] d = 80 -> 985 [] d = 90 -> 1000 [] d = 180 -> 0 [] d = -90 -> -1000
      [] d = 9 -> 156 [] d = -4 -> -70

\* str.lower() on the strings the inputs use
lower(s) ==
    CASE s = "Driver" -> "driver"
      [] s = "Green"  -> "green"
      [] OTHER        -> s

\* rpm * (2 * pi) / 60 : 0.1 RPM to mrad/s
rpm_to_rad_s(rpm) == RDiv(rpm * 6283, 600)

\* rad_s * 60 / (2 * pi) : mrad/s to 0.1 RPM
rad_s_to_rpm(rad_s) == RDiv(rad_s * 600, 6283)

\* METERS_TO_YARDS = 1.09361 : mm to 1e-3 yd
METERS_TO_YARDS == 109361

to_yards(m) == m + RDiv(m * (METERS_TO_YARDS - 100000), 100000)

\* what a call gives when it ends with this exception instead of returning
ZeroDivisionError == [ error |-> "ZeroDivisionError" ]

\* ------------------------------------------------------------- the simulator

\* CompleteGolfSim.__init__
NewSim ==
    [ ball_mass               |-> 4593,
      ball_radius             |-> 2135,
      gravity                 |-> 9810,
      ball_compression_rating |-> 1000,
      base_cor                |-> 830,
      base_smash_factor       |-> 1500,
      vert_gear_rpm_cm        |-> 80,
      toe_gear_rpm_cm         |-> 120,
      drag_base               |-> 200000,
      lift_base               |-> 300000,
      spin_decay_rate         |-> 5,
      flight_time_step        |-> 10,
      flight_max_steps        |-> FlightMaxSteps,
      ground_restitution      |-> 400,
      ground_friction         |-> 350,
      spin_friction_factor    |-> 1000,
      roll_time_step          |-> 10,
      roll_max_steps          |-> RollMaxSteps ]

\* a comparison of the club type as it was passed
gear_vert_case_sensitive(club_type) ==
    IF club_type = "driver" THEN 60
    ELSE IF club_type = "iron" THEN 80
    ELSE 80

\* set_gear_ratios: the two assignments, in program order
gear_vert(club_type) ==
    IF lower(club_type) = "driver" THEN 60
    ELSE IF lower(club_type) = "iron" THEN 80
    ELSE 80

gear_toe(club_type) ==
    IF lower(club_type) = "driver" THEN 80
    ELSE IF lower(club_type) = "iron" THEN 120
    ELSE 120

\* set_gear_ratios whose else branch leaves the ratios as they are
set_gear_ratios_else_pass(s, club_type) ==
    IF lower(club_type) \in {"driver", "iron"}
    THEN [s EXCEPT !.vert_gear_rpm_cm = gear_vert(club_type),
                   !.toe_gear_rpm_cm  = gear_toe(club_type)]
    ELSE s

set_gear_ratios(s, club_type) ==
    [s EXCEPT !.vert_gear_rpm_cm = gear_vert(club_type),
              !.toe_gear_rpm_cm  = gear_toe(club_type)]

\* ------------------------------------------------------------------- impact

MAX_BACKSPIN_RPM == 60000
MAX_SIDESPIN_RPM == 30000

Min(a, b) == IF a <= b THEN a ELSE b
Max(a, b) == IF a >= b THEN a ELSE b

\* the sidespin without the square-face override
impact_sidespin_no_override(club_speed, loft, face, hoff, compression, toe_gear) ==
    RDiv(RDiv(club_speed * toe_gear * loft, 1000) * 1000, compression)
    + face * 20 * 10
    + hoff * 5

\* the sidespin of compute_impact before the cap (lines 48-65)
impact_sidespin(club_speed, loft, face, hoff, compression, toe_gear) ==
    IF face = 0 /\ hoff = 0
    THEN 0
    ELSE RDiv(RDiv(club_speed * toe_gear * loft, 1000) * 1000, compression)
         + face * 20 * 10
         + hoff * 5

\* the backspin returned as it was computed, with no cap
cap_backspin_none(backspin_rpm) == backspin_rpm

\* min(backspin_rpm, MAX_BACKSPIN_RPM)
cap_backspin(backspin_rpm) == Min(backspin_rpm, MAX_BACKSPIN_RPM)

\* max(min(sidespin_rpm, MAX_SIDESPIN_RPM), -MAX_SIDESPIN_RPM)
cap_sidespin(sidespin_rpm) ==
    Max(Min(sidespin_rpm, MAX_SIDESPIN_RPM), -MAX_SIDESPIN_RPM)

\* the backspin of compute_impact before the cap (lines 47, 67)
impact_backspin(club_speed, loft, voff, compression, vert_gear) ==
    RDiv(RDiv(club_speed * vert_gear * loft, 1000) * 1000, compression)
    + voff * 10

\* compute_impact; base_cor is accepted and never read
compute_impact(club_speed, loft, face, hoff, voff, compression, base_cor, base_smash_factor, toe_gear, vert_gear) ==
    LET launch_speed == RDiv(club_speed * base_smash_factor, 1000)
        sidespin0    == impact_sidespin(club_speed, loft, face, hoff,
                                        compression, toe_gear)
        backspin1    == impact_backspin(club_speed, loft, voff, compression,
                                        vert_gear)
    IN  [ launch_speed       |-> launch_speed,
          launch_angle_vert  |-> loft,
          launch_angle_horiz |-> face,
          backspin_rpm       |-> cap_backspin(backspin1),
          sidespin_rpm       |-> cap_sidespin(sidespin0) ]

\* math.exp, in 1e-3 of an argument in 1e-3, on the arguments the inputs give
exp_milli(x) ==
    CASE x = 0 -> 1000 [] x = -238 -> 788 [] x = 1341 -> 3823

\* calculate_air_density, in 1e-3 kg/m^3; the Tetens formula divides by
\* temperature_c + 243.5
calculate_air_density(temperature_c, humidity, elevation_m) ==
    IF temperature_c + 2435 = 0 THEN "ZeroDivisionError"
    ELSE LET T    == temperature_c * 10 + 27315
             P    == RDiv(101325 * exp_milli(RDiv(-elevation_m * 1000, 8400)), 1000)
             e_s  == RDiv(6112 * exp_milli(RDiv(1767 * temperature_c * 10,
                                                temperature_c + 2435)), 10000)
             e    == RDiv(humidity * e_s, 100)
             P_d  == P - e
             P_v  == e
         IN  RDiv(P_d * 1000, RDiv(28705 * T, 10000))
             + RDiv(P_v * 1000, RDiv(46150 * T, 10000))

\* ------------------------------------------------------------------- flight

\* math.pi * ball_radius ** 2, in mm^2
ball_area(ball_radius) ==
    RDiv(RDiv(ball_radius * ball_radius, 100) * 3142, 100000)

\* 0.5 * coef * speed ** 2 * pi * ball_radius ** 2, in 1e-6 N
aero_force(coef, speed, ball_radius) ==
    RDiv(RDiv(RDiv(coef, 100) * RDiv((speed * speed) \div 1000, 10), 1000)
         * ball_area(ball_radius), 2000)

\* the state simulate_flight starts from (lines 62-83)
flight_start(launch_speed, vert, horiz, backspin_rpm, sidespin_rpm) ==
    [ x  |-> 0, y |-> 0, z |-> 0,
      vx |-> RDiv(RDiv(launch_speed * cos_milli(vert), 1000) * cos_milli(horiz), 1000),
      vy |-> RDiv(RDiv(launch_speed * cos_milli(vert), 1000) * sin_milli(horiz), 1000),
      vz |-> RDiv(launch_speed * sin_milli(vert), 1000),
      bs |-> rpm_to_rad_s(backspin_rpm),
      ss |-> rpm_to_rad_s(sidespin_rpm) ]

\* the part of the flight parameters the loop reads
flight_params(wind_speed, wind_dir, s) ==
    [ wind_vx         |-> RDiv(wind_speed * cos_milli(wind_dir), 1000),
      wind_vy         |-> RDiv(wind_speed * sin_milli(wind_dir), 1000),
      ball_mass       |-> s.ball_mass,
      ball_radius     |-> s.ball_radius,
      drag_base       |-> s.drag_base,
      lift_base       |-> s.lift_base,
      spin_decay_rate |-> s.spin_decay_rate,
      gravity         |-> s.gravity,
      time_step       |-> s.flight_time_step,
      max_steps       |-> s.flight_max_steps ]

\* spin *= (1 + rate * time_step): the spin grows
spin_decay_grows(spin, rate, time_step) ==
    spin + RDiv(spin * RDiv(rate * time_step, 10), 100000000)

\* spin *= (1 - rate * time_step), rate in 1e-6 per second
spin_decay(spin, rate, time_step) ==
    spin - RDiv(spin * RDiv(rate * time_step, 10), 100000000)

\* the speed used as it was computed, with no test for 0
guard_speed_none(speed0) == speed0

\* if speed == 0: speed = 1e-6 (lines 102-103); 1e-6 m/s is below the unit,
\* the smallest positive speed stands for it
guard_speed(speed0) == IF speed0 = 0 THEN 1 ELSE speed0

\* math.sqrt(rel_vx ** 2 + rel_vy ** 2 + rel_vz ** 2) (lines 94-99)
rel_speed(b, p) ==
    Isqrt((b.vx - p.wind_vx) * (b.vx - p.wind_vx)
          + (b.vy - p.wind_vy) * (b.vy - p.wind_vy) + b.vz * b.vz)

\* a pass of the flight loop raises ZeroDivisionError: speed * ball_mass is 0
\* at lines 113-115, or ball_mass is 0 at line 121
flight_raises(b, p) ==
    \/ RDiv(guard_speed(rel_speed(b, p)) * p.ball_mass, 1000) = 0
    \/ p.ball_mass = 0

\* a flight step in which sidespin bends the path sideways
flight_update_curving(b, p) ==
    LET rel_vx  == b.vx - p.wind_vx
        rel_vy  == b.vy - p.wind_vy
        rel_vz  == b.vz
        speed0  == rel_speed(b, p)
        speed   == guard_speed(speed0)
        drag    == p.drag_base + RDiv(RDiv(p.drag_base, 1000) * b.bs, 10000)
        lift    == RDiv(RDiv(p.lift_base, 1000) * b.bs, 1000)
        drag_force == IF speed0 = 0 THEN 0
                      ELSE aero_force(drag, speed, p.ball_radius)
        den     == RDiv(speed * p.ball_mass, 1000)
        ax_drag == RDiv(-RDiv(drag_force, 10) * rel_vx, den)
        ay_drag == RDiv(-RDiv(drag_force, 10) * rel_vy, den)
        az_drag == RDiv(-RDiv(drag_force, 10) * rel_vz, den)
        lift_force == IF speed0 = 0 THEN 0
                      ELSE aero_force(lift, speed, p.ball_radius)
        az_lift == RDiv(lift_force * 100, p.ball_mass)
        az_gravity == -p.gravity
        vx == b.vx + RDiv(ax_drag * p.time_step, 1000)
        vy == b.vy + RDiv(ay_drag * p.time_step, 1000) + RDiv(b.ss, 1000)
        vz == b.vz + RDiv((az_drag + az_lift + az_gravity) * p.time_step, 1000)
    IN  [ x  |-> b.x + RDiv(vx * p.time_step, 1000),
          y  |-> b.y + RDiv(vy * p.time_step, 1000),
          z  |-> b.z + RDiv(vz * p.time_step, 1000),
          vx |-> vx, vy |-> vy, vz |-> vz,
          bs |-> spin_decay(b.bs, p.spin_decay_rate, p.time_step),
          ss |-> spin_decay(b.ss, p.spin_decay_rate, p.time_step) ]

\* one pass of the body of the flight loop after the record and the z < 0
\* test (lines 93-138)
flight_update(b, p) ==
    LET rel_vx  == b.vx - p.wind_vx
        rel_vy  == b.vy - p.wind_vy
        rel_vz  == b.vz
        speed0  == rel_speed(b, p)
        speed   == guard_speed(speed0)
        drag    == p.drag_base + RDiv(RDiv(p.drag_base, 1000) * b.bs, 10000)
        lift    == RDiv(RDiv(p.lift_base, 1000) * b.bs, 1000)
        drag_force == IF speed0 = 0 THEN 0
                      ELSE aero_force(drag, speed, p.ball_radius)
        den     == RDiv(speed * p.ball_mass, 1000)
        ax_drag == RDiv(-RDiv(drag_force, 10) * rel_vx, den)
        ay_drag == RDiv(-RDiv(drag_force, 10) * rel_vy, den)
        az_drag == RDiv(-RDiv(drag_force, 10) * rel_vz, den)
        lift_force == IF speed0 = 0 THEN 0
                      ELSE aero_force(lift, speed, p.ball_radius)
        az_lift == RDiv(lift_force * 100, p.ball_mass)
        az_gravity == -p.gravity
        vx == b.vx + RDiv(ax_drag * p.time_step, 1000)
        vy == b.vy + RDiv(ay_drag * p.time_step, 1000)
        vz == b.vz + RDiv((az_drag + az_lift + az_gravity) * p.time_step, 1000)
    IN  [ x  |-> b.x + RDiv(vx * p.time_step, 1000),
          y  |-> b.y + RDiv(vy * p.time_step, 1000),
          z  |-> b.z + RDiv(vz * p.time_step, 1000),
          vx |-> vx, vy |-> vy, vz |-> vz,
          bs |-> spin_decay(b.bs, p.spin_decay_rate, p.time_step),
          ss |-> spin_decay(b.ss, p.spin_decay_rate, p.time_step) ]

\* range(max_steps + 1): one pass too many
flight_in_range_off_by_one(step, max_steps) == step <= max_steps

\* for step in range(max_steps), in simulate_flight
flight_in_range(step, max_steps) == step < max_steps

\* a loop that never tests the height
below_ground_never(b) == FALSE

\* if z < 0: break (lines 90-91)
below_ground(b) == b.z < 0

\* for step in range(max_steps): record, stop at z < 0, else update
RECURSIVE flight_loop(_, _, _, _)
flight_loop(b, path, step, p) ==
    IF ~flight_in_range(step, p.max_steps) THEN path
    ELSE IF below_ground(b) THEN Append(path, b)
    ELSE flight_loop(flight_update(b, p), Append(path, b), step + 1, p)

\* the flight loop raises before it ends
RECURSIVE flight_loop_raises(_, _, _)
flight_loop_raises(b, step, p) ==
    IF ~flight_in_range(step, p.max_steps) THEN FALSE
    ELSE IF below_ground(b) THEN FALSE
    ELSE IF flight_raises(b, p) THEN TRUE
    ELSE flight_loop_raises(flight_update(b, p), step + 1, p)

\* simulate_flight raises instead of returning
simulate_flight_raises(imp, wind_speed, wind_dir, s) ==
    flight_loop_raises(flight_start(imp.launch_speed, imp.launch_angle_vert,
                                    imp.launch_angle_horiz, imp.backspin_rpm,
                                    imp.sidespin_rpm),
                       0, flight_params(wind_speed, wind_dir, s))

\* simulate_flight; temperature_c, humidity and elevation_m are accepted and
\* never read
simulate_flight(imp, wind_speed, wind_dir, temperature_c, humidity, elevation_m, s) ==
    flight_loop(flight_start(imp.launch_speed, imp.launch_angle_vert,
                             imp.launch_angle_horiz, imp.backspin_rpm,
                             imp.sidespin_rpm),
                << >>, 0, flight_params(wind_speed, wind_dir, s))

\* ------------------------------------------------------------------- ground

\* a lookup that compares the surface string as it was passed
surface_friction_case_sensitive(surface_type) ==
    CASE surface_type = "fairway" -> 350
      [] surface_type = "rough"   -> 300
      [] surface_type = "green"   -> 450
      [] OTHER                    -> 350

\* surface_properties.get(surface_type.lower(), fairway's pair)
surface_friction(surface_type) ==
    CASE lower(surface_type) = "fairway" -> 350
      [] lower(surface_type) = "rough"   -> 300
      [] lower(surface_type) = "green"   -> 450
      [] OTHER                           -> 350

surface_restitution(surface_type) ==
    CASE lower(surface_type) = "fairway" -> 400
      [] lower(surface_type) = "rough"   -> 350
      [] lower(surface_type) = "green"   -> 300
      [] OTHER                           -> 400

\* the part of the ground parameters the loop reads; ground_restitution
\* and ground_friction are accepted and never read
ground_params(surface_type, s) ==
    [ ball_mass            |-> s.ball_mass,
      ball_radius          |-> s.ball_radius,
      gravity              |-> s.gravity,
      current_friction     |-> surface_friction(surface_type),
      current_restitution  |-> surface_restitution(surface_type),
      spin_friction_factor |-> s.spin_friction_factor,
      time_step            |-> s.roll_time_step,
      max_steps            |-> s.roll_max_steps ]

speed_h(b) == Isqrt(b.vx * b.vx + b.vy * b.vy)

\* a test that waits for the ball to be exactly still
stop_condition_exactly_still(b) == speed_h(b) = 0 /\ b.vz = 0

\* speed_h < 0.05 and abs(vzg) < 0.05
stop_condition(b) == speed_h(b) < 50 /\ Abs(b.vz) < 50

\* the branch one pass of the ground loop takes after the stop test
ground_branch(b, p) ==
    IF b.z <= 0
    THEN IF Abs(b.vz) > 100 THEN "bounce"
         ELSE IF speed_h(b) > RDiv(b.bs * p.ball_radius, 100000) + 100
              THEN "slide"
              ELSE "roll"
    ELSE "air"

\* the factor with the horizontal_energy_loss of 0.5 the code had before
reduction_factor_half == Isqrt((10000 - 5000) * 10000)

\* math.sqrt(1 - horizontal_energy_loss), in 1e-4
reduction_factor == Isqrt((10000 - 3000) * 10000)

\* the bounce branch and the position update that follows it (lines 58-76,
\* 153-156)
bounce_update(b, p) ==
    LET vz == RDiv(-b.vz * p.current_restitution, 1000)
        vx == RDiv(RDiv(b.vx * reduction_factor, 10000) * (1000 - 50), 1000)
        vy == RDiv(RDiv(b.vy * reduction_factor, 10000) * (1000 - 50), 1000)
    IN  [ x  |-> b.x + RDiv(vx * p.time_step, 1000),
          y  |-> b.y + RDiv(vy * p.time_step, 1000),
          z  |-> b.z + RDiv(vz * p.time_step, 1000),
          vx |-> vx, vy |-> vy, vz |-> vz,
          bs |-> spin_decay(b.bs, p.spin_friction_factor, p.time_step),
          ss |-> spin_decay(b.ss, p.spin_friction_factor, p.time_step) ]

\* a pass of the ground loop raises ZeroDivisionError: the slide branch
\* divides by speed_h (lines 92-93)
ground_raises(b, p) == ground_branch(b, p) = "slide" /\ speed_h(b) = 0

\* the slide branch without zg = 0.0 and continue: the position update of
\* lines 153-156 follows it
slide_update_keeps_height(b, p) ==
    LET sliding_friction == RDiv(p.current_friction * p.gravity, 1000)
        ax == RDiv(-sliding_friction * b.vx, speed_h(b))
        ay == RDiv(-sliding_friction * b.vy, speed_h(b))
        vx == b.vx + RDiv(ax * p.time_step, 1000)
        vy == b.vy + RDiv(ay * p.time_step, 1000)
    IN  [ x  |-> b.x + RDiv(vx * p.time_step, 1000),
          y  |-> b.y + RDiv(vy * p.time_step, 1000),
          z  |-> b.z + RDiv(b.vz * p.time_step, 1000),
          vx |-> vx, vy |-> vy, vz |-> b.vz,
          bs |-> spin_decay(b.bs, p.spin_friction_factor, p.time_step),
          ss |-> spin_decay(b.ss, p.spin_friction_factor, p.time_step) ]

\* the slide branch (lines 89-108), for speed_h > 0
slide_update(b, p) ==
    LET sliding_friction == RDiv(p.current_friction * p.gravity, 1000)
        ax == RDiv(-sliding_friction * b.vx, speed_h(b))
        ay == RDiv(-sliding_friction * b.vy, speed_h(b))
        vx == b.vx + RDiv(ax * p.time_step, 1000)
        vy == b.vy + RDiv(ay * p.time_step, 1000)
    IN  [ x  |-> b.x + RDiv(vx * p.time_step, 1000),
          y  |-> b.y + RDiv(vy * p.time_step, 1000),
          z  |-> 0,
          vx |-> vx, vy |-> vy, vz |-> b.vz,
          bs |-> spin_decay(b.bs, p.spin_friction_factor, p.time_step),
          ss |-> spin_decay(b.ss, p.spin_friction_factor, p.time_step) ]

\* the roll branch without the two tests that stop a reversal (lines 127-130)
roll_update_no_clamp(b, p) ==
    LET rolling_resistance ==
            RDiv(RDiv(p.current_friction * p.ball_mass, 1000) * p.gravity * 12, 10)
        sh    == speed_h(b)
        dir_x == IF sh > 0 THEN RDiv(b.vx * 1000, sh) ELSE 0
        dir_y == IF sh > 0 THEN RDiv(b.vy * 1000, sh) ELSE 0
        ax    == RDiv(-RDiv(rolling_resistance, 100) * dir_x, p.ball_mass * 10)
        ay    == RDiv(-RDiv(rolling_resistance, 100) * dir_y, p.ball_mass * 10)
        vx    == IF sh > 0 THEN b.vx + RDiv(ax * p.time_step, 1000) ELSE 0
        vy    == IF sh > 0 THEN b.vy + RDiv(ay * p.time_step, 1000) ELSE 0
    IN  [ x  |-> b.x + RDiv(vx * p.time_step, 1000),
          y  |-> b.y + RDiv(vy * p.time_step, 1000),
          z  |-> 0,
          vx |-> vx, vy |-> vy, vz |-> 0,
          bs |-> spin_decay(b.bs, p.spin_friction_factor, p.time_step),
          ss |-> spin_decay(b.ss, p.spin_friction_factor, p.time_step) ]

\* the roll branch (lines 110-146)
roll_update(b, p) ==
    LET rolling_resistance ==
            RDiv(RDiv(p.current_friction * p.ball_mass, 1000) * p.gravity * 12, 10)
        sh    == speed_h(b)
        dir_x == IF sh > 0 THEN RDiv(b.vx * 1000, sh) ELSE 0
        dir_y == IF sh > 0 THEN RDiv(b.vy * 1000, sh) ELSE 0
        ax    == RDiv(-RDiv(rolling_resistance, 100) * dir_x, p.ball_mass * 10)
        ay    == RDiv(-RDiv(rolling_resistance, 100) * dir_y, p.ball_mass * 10)
        vx1   == b.vx + RDiv(ax * p.time_step, 1000)
        vy1   == b.vy + RDiv(ay * p.time_step, 1000)
        vx    == IF sh > 0 THEN (IF vx1 * dir_x < 0 THEN 0 ELSE vx1) ELSE 0
        vy    == IF sh > 0 THEN (IF vy1 * dir_y < 0 THEN 0 ELSE vy1) ELSE 0
    IN  [ x  |-> b.x + RDiv(vx * p.time_step, 1000),
          y  |-> b.y + RDiv(vy * p.time_step, 1000),
          z  |-> 0,
          vx |-> vx, vy |-> vy, vz |-> 0,
          bs |-> spin_decay(b.bs, p.spin_friction_factor, p.time_step),
          ss |-> spin_decay(b.ss, p.spin_friction_factor, p.time_step) ]

\* the mid-bounce branch and the position update that follows it (lines
\* 148-156)
air_update(b, p) ==
    LET vz == b.vz - RDiv(p.gravity * p.time_step, 1000)
    IN  [ b EXCEPT !.x  = b.x + RDiv(b.vx * p.time_step, 1000),
                   !.y  = b.y + RDiv(b.vy * p.time_step, 1000),
                   !.z  = b.z + RDiv(vz * p.time_step, 1000),
                   !.vz = vz ]

\* one pass of the body of the ground loop after the record and the stop
\* test (lines 56-156)
ground_update(b, p) ==
    CASE ground_branch(b, p) = "bounce" -> bounce_update(b, p)
      [] ground_branch(b, p) = "slide"  -> slide_update(b, p)
      [] ground_branch(b, p) = "roll"   -> roll_update(b, p)
      [] ground_branch(b, p) = "air"    -> air_update(b, p)

\* for step in range(max_steps), in simulate_bounce_and_roll
roll_in_range(step, max_steps) == step < max_steps

\* for step in range(max_steps): record, stop when at rest, else update
RECURSIVE ground_loop(_, _, _, _)
ground_loop(b, path, step, p) ==
    IF ~roll_in_range(step, p.max_steps) THEN path
    ELSE IF stop_condition(b) THEN Append(path, b)
    ELSE ground_loop(ground_update(b, p), Append(path, b), step + 1, p)

\* the ground loop raises before it ends
RECURSIVE ground_loop_raises(_, _, _)
ground_loop_raises(b, step, p) ==
    IF ~roll_in_range(step, p.max_steps) THEN FALSE
    ELSE IF stop_condition(b) THEN FALSE
    ELSE IF ground_raises(b, p) THEN TRUE
    ELSE ground_loop_raises(ground_update(b, p), step + 1, p)

\* simulate_bounce_and_roll raises instead of returning
simulate_bounce_and_roll_raises(last_flight_state, surface_type, s) ==
    ground_loop_raises(last_flight_state, 0, ground_params(surface_type, s))

\* simulate_bounce_and_roll
simulate_bounce_and_roll(last_flight_state, surface_type, s) ==
    ground_loop(last_flight_state, << >>, 0, ground_params(surface_type, s))

\* ---------------------------------------------------------------- aggregate

Last(path) == path[Len(path)]

\* a handoff that puts the landing state on the ground
last_flight_on_ground(flight_path_m) == [ Last(flight_path_m) EXCEPT !.z = 0 ]

\* last_flight = flight_path_m[-1], the state handed to the ground loop
last_flight(flight_path_m) == Last(flight_path_m)

\* a state of a trajectory in yards: positions and velocities converted,
\* spins unchanged
state_yards(b) ==
    [ x  |-> to_yards(b.x),  y  |-> to_yards(b.y),  z  |-> to_yards(b.z),
      vx |-> to_yards(b.vx), vy |-> to_yards(b.vy), vz |-> to_yards(b.vz),
      bs |-> b.bs, ss |-> b.ss ]

path_yards(path) == [ i \in 1..Len(path) |-> state_yards(path[i]) ]

\* the distance along x alone
dist_2d_yards_along_x(b) == Abs(to_yards(b.x))

\* math.sqrt((x * METERS_TO_YARDS) ** 2 + (y * METERS_TO_YARDS) ** 2)
dist_2d_yards(b) == Isqrt(to_yards(b.x) * to_yards(b.x) + to_yards(b.y) * to_yards(b.y))

\* the dictionary simulate_shot returns when flight_path_m is empty
empty_result(imp) ==
    [ impact_result        |-> imp,
      flight_path_yards    |-> << >>,
      roll_path_yards      |-> << >>,
      final_position_yards |-> << 0, 0, 0 >>,
      carry_2d_yards       |-> 0,
      roll_2d_yards        |-> 0,
      total_2d_yards       |-> 0,
      final_spin           |-> << 0, 0 >> ]

\* the dictionary simulate_shot returns otherwise (lines 163-225)
shot_result(imp, flight_path_m, roll_path_m) ==
    LET landing     == last_flight(flight_path_m)
        final_state == IF roll_path_m # << >> THEN Last(roll_path_m) ELSE landing
        carry       == dist_2d_yards(landing)
        total       == IF roll_path_m # << >> THEN dist_2d_yards(final_state) ELSE carry
    IN  [ impact_result        |-> imp,
          flight_path_yards    |-> path_yards(flight_path_m),
          roll_path_yards      |-> path_yards(roll_path_m),
          final_position_yards |-> << to_yards(final_state.x), to_yards(final_state.y),
                                      to_yards(final_state.z) >>,
          carry_2d_yards       |-> carry,
          roll_2d_yards        |-> IF roll_path_m # << >> THEN total - carry ELSE 0,
          total_2d_yards       |-> total,
          final_spin           |-> << rad_s_to_rpm(final_state.bs),
                                      rad_s_to_rpm(final_state.ss) >> ]

\* compute_impact as simulate_shot calls it, with the gear ratios it read
shot_impact(a, s, toe_gear, vert_gear) ==
    compute_impact(a.club_speed_mps, a.club_loft_deg, a.club_face_angle_deg,
                   a.horizontal_offset_cm, a.vertical_offset_cm,
                   s.ball_compression_rating, s.base_cor, s.base_smash_factor,
                   toe_gear, vert_gear)

\* simulate_shot after its impact: flight, ground and aggregation, or the
\* exception one of the two loops raised
shot_after_impact(a, imp, s) ==
    LET flight_path_m == simulate_flight(imp, a.wind_speed_mps, a.wind_dir_deg,
                                         a.temperature_c, a.humidity,
                                         a.elevation_m, s)
    IN  IF simulate_flight_raises(imp, a.wind_speed_mps, a.wind_dir_deg, s)
        THEN ZeroDivisionError
        ELSE IF flight_path_m = << >>
        THEN empty_result(imp)
        ELSE IF simulate_bounce_and_roll_raises(last_flight(flight_path_m),
                                                a.surface_type, s)
        THEN ZeroDivisionError
        ELSE shot_result(imp, flight_path_m,
                         simulate_bounce_and_roll(last_flight(flight_path_m),
                                                  a.surface_type, s))

\* simulate_shot as one call on simulator s: the simulator it leaves and the
\* dictionary it returns
simulate_shot(a, s) ==
    LET s1 == set_gear_ratios(s, a.club_type)
    IN  [ sim    |-> s1,
          result |-> shot_after_impact(
                         a, shot_impact(a, s1, s1.toe_gear_rpm_cm, s1.vert_gear_rpm_cm),
                         s1) ]

\* ------------------------------------------------------------------- inputs

ClubSpeeds   == {1000, 2000}
Lofts        == {0, 30, 80}
FaceAngles   == {-90, 0, 10}
HOffsets     == {0, 2}
VOffsets     == {0}
WindSpeeds   == {0, 20000}
WindDirs     == {180}
Temperatures == {200, -2435}
Humidities   == {50, 150}
Elevations   == {0}
Surfaces     == {"fairway", "rough", "green", "Green", "bunker"}
ClubTypes    == {"Driver", "iron", "putter"}

\* the arguments of simulate_shot: every strike, wind, surface and club in
\* ordinary weather, every weather on the fairway with an iron, and the club
\* at rest with the ball struck on the centre or far below it
Shots ==
    [ club_speed_mps       : ClubSpeeds,
      club_loft_deg        : Lofts,
      club_face_angle_deg  : FaceAngles,
      horizontal_offset_cm : HOffsets,
      vertical_offset_cm   : VOffsets,
      wind_speed_mps       : WindSpeeds,
      wind_dir_deg         : WindDirs,
      temperature_c        : {200},
      humidity             : {50},
      elevation_m          : Elevations,
      surface_type         : Surfaces,
      club_type            : ClubTypes ]
    \cup
    [ club_speed_mps       : ClubSpeeds,
      club_loft_deg        : Lofts,
      club_face_angle_deg  : {0},
      horizontal_offset_cm : {0},
      vertical_offset_cm   : VOffsets,
      wind_speed_mps       : WindSpeeds,
      wind_dir_deg         : WindDirs,
      temperature_c        : Temperatures,
      humidity             : Humidities,
      elevation_m          : Elevations,
      surface_type         : {"fairway"},
      club_type            : {"iron"} ]
    \cup
    [ club_speed_mps       : {0},
      club_loft_deg        : Lofts,
      club_face_angle_deg  : {0},
      horizontal_offset_cm : {0},
      vertical_offset_cm   : {-50, 0},
      wind_speed_mps       : WindSpeeds,
      wind_dir_deg         : WindDirs,
      temperature_c        : {200},
      humidity             : {50},
      elevation_m          : Elevations,
      surface_type         : {"fairway"},
      club_type            : {"iron"} ]

NoArgs   == [ none |-> TRUE ]
NoImpact == [ none |-> TRUE ]
NoResult == [ none |-> TRUE ]
NoBall   == [ x |-> 0, y |-> 0, z |-> 0, vx |-> 0, vy |-> 0, vz |-> 0,
              bs |-> 0, ss |-> 0 ]

\* -------------------------------------------------------------------- state

VARIABLES
    sim,          \* the CompleteGolfSim instance
    pc,           \* where the running simulate_shot call is
    args,         \* its arguments
    impact,       \* its impact dictionary
    ball,         \* the loop variables x, y, z, vx, vy, vz, backspin, sidespin
    step,         \* the loop variable step
    flight_path,  \* flight_path_m
    roll_path,    \* roll_path_m
    result,       \* the dictionary the call returned
    memo,         \* an earlier call of this instance: its arguments and result
    threads,      \* the concurrent callers of simulate_shot on the instance
    ci_in,        \* the arguments of a compute_impact call
    ci_out,       \* what that call returned
    fm,           \* a FlightModule object and the position of its simulate()
    gen           \* a generate_massive_data run and the file it writes

vars == << sim, pc, args, impact, ball, step, flight_path, roll_path, result,
           memo, threads, ci_in, ci_out, fm, gen >>

\* what a sequential simulate_shot call leaves alone
others == << memo, threads, ci_in, ci_out, fm, gen >>

NoMemo == [ none |-> TRUE ]

Threads == {1, 2}

NoThread == [ pc |-> "idle", args |-> NoArgs, toe |-> 0, vert |-> 0,
              result |-> NoResult ]

\* no FlightModule has been constructed
NoFlightModule == [ pc |-> "none" ]

\* generate_massive_data is not running
NoRun == [ pc |-> "none" ]

InitShot ==
    /\ sim = NewSim
    /\ pc = "idle"
    /\ args = NoArgs
    /\ impact = NoImpact
    /\ ball = NoBall
    /\ step = 0
    /\ flight_path = << >>
    /\ roll_path = << >>
    /\ result = NoResult
    /\ memo = NoMemo
    /\ threads = [ t \in Threads |-> NoThread ]
    /\ fm = NoFlightModule

Init ==
    /\ InitShot
    /\ gen = NoRun
    /\ ci_in = NoArgs
    /\ ci_out = NoImpact

\* simulate_shot is called: set_gear_ratios, compute_impact and the start of
\* simulate_flight (complete_golf_sim.py 98-113, flight_model.py 59-83)
Call(a) ==
    /\ pc = "idle"
    /\ LET s1  == set_gear_ratios(sim, a.club_type)
           imp == shot_impact(a, s1, s1.toe_gear_rpm_cm, s1.vert_gear_rpm_cm)
       IN  /\ sim' = s1
           /\ impact' = imp
           /\ ball' = flight_start(imp.launch_speed, imp.launch_angle_vert,
                                   imp.launch_angle_horiz, imp.backspin_rpm,
                                   imp.sidespin_rpm)
    /\ args' = a
    /\ step' = 0
    /\ flight_path' = << >>
    /\ roll_path' = << >>
    /\ result' = NoResult
    /\ pc' = "flight"
    /\ UNCHANGED others

FlightParams == flight_params(args.wind_speed_mps, args.wind_dir_deg, sim)
GroundParams == ground_params(args.surface_type, sim)

\* one pass of the flight loop: record, then break at z < 0 or update
FlightStep ==
    /\ pc = "flight"
    /\ flight_in_range(step, FlightParams.max_steps)
    /\ flight_path' = Append(flight_path, ball)
    /\ IF below_ground(ball)
       THEN /\ pc' = "handoff"
            /\ UNCHANGED << ball, step, result >>
       ELSE IF flight_raises(ball, FlightParams)
       THEN /\ pc' = "raised"
            /\ result' = ZeroDivisionError
            /\ UNCHANGED << ball, step >>
       ELSE /\ ball' = flight_update(ball, FlightParams)
            /\ step' = step + 1
            /\ pc' = pc
            /\ UNCHANGED result
    /\ UNCHANGED << sim, args, impact, roll_path, others >>

\* range(max_steps) is exhausted: simulate_flight returns what it recorded
FlightExhausted ==
    /\ pc = "flight"
    /\ ~flight_in_range(step, FlightParams.max_steps)
    /\ pc' = "handoff"
    /\ UNCHANGED << sim, args, impact, ball, step, flight_path, roll_path, result, others >>

\* complete_golf_sim.py 137-161: the early return on an empty flight path,
\* else the last flight state is handed to simulate_bounce_and_roll
Handoff ==
    /\ pc = "handoff"
    /\ IF flight_path = << >>
       THEN /\ result' = empty_result(impact)
            /\ pc' = "done"
            /\ UNCHANGED << ball, step >>
       ELSE /\ ball' = last_flight(flight_path)
            /\ step' = 0
            /\ pc' = "ground"
            /\ UNCHANGED result
    /\ UNCHANGED << sim, args, impact, flight_path, roll_path, others >>

\* one pass of the ground loop: record, then break at rest or update
GroundStep ==
    /\ pc = "ground"
    /\ roll_in_range(step, GroundParams.max_steps)
    /\ roll_path' = Append(roll_path, ball)
    /\ IF stop_condition(ball)
       THEN /\ pc' = "aggregate"
            /\ UNCHANGED << ball, step, result >>
       ELSE IF ground_raises(ball, GroundParams)
       THEN /\ pc' = "raised"
            /\ result' = ZeroDivisionError
            /\ UNCHANGED << ball, step >>
       ELSE /\ ball' = ground_update(ball, GroundParams)
            /\ step' = step + 1
            /\ pc' = pc
            /\ UNCHANGED result
    /\ UNCHANGED << sim, args, impact, flight_path, others >>

\* range(max_steps) is exhausted: simulate_bounce_and_roll returns what it
\* recorded
GroundExhausted ==
    /\ pc = "ground"
    /\ ~roll_in_range(step, GroundParams.max_steps)
    /\ pc' = "aggregate"
    /\ UNCHANGED << sim, args, impact, ball, step, flight_path, roll_path, result, others >>

\* complete_golf_sim.py 163-225: the conversion to yards and the summary
Return ==
    /\ pc = "aggregate"
    /\ result' = shot_result(impact, flight_path, roll_path)
    /\ pc' = "done"
    /\ UNCHANGED << sim, args, impact, ball, step, flight_path, roll_path, others >>

\* the caller has used the returned dictionary, or caught the exception, and
\* the call's locals are gone; the instance stays as the call left it
Release ==
    /\ pc \in {"done", "raised"}
    /\ pc' = "idle"
    /\ args' = NoArgs
    /\ impact' = NoImpact
    /\ ball' = NoBall
    /\ step' = 0
    /\ flight_path' = << >>
    /\ roll_path' = << >>
    /\ result' = NoResult
    /\ UNCHANGED << sim, others >>

Next ==
    \/ \E a \in Shots : Call(a)
    \/ FlightStep
    \/ FlightExhausted
    \/ Handoff
    \/ GroundStep
    \/ GroundExhausted
    \/ Return
    \/ Release

Spec == Init /\ [][Next]_vars

\* ------------------------------------------------------- claims, under Spec

\* simulate_flight has returned
FlightReturned == pc \in {"handoff", "ground", "aggregate", "done"}

\* simulate_bounce_and_roll has returned
GroundReturned == pc \in {"aggregate", "done"} /\ flight_path # << >>

\* the flight loop ran out of steps without recording a state below ground
FlightTruncated ==
    /\ FlightReturned
    /\ flight_path # << >>
    /\ Len(flight_path) = sim.flight_max_steps
    /\ Last(flight_path).z >= 0

\* the ground loop ran out of steps without meeting its stop condition
RollTruncated ==
    /\ GroundReturned
    /\ roll_path # << >>
    /\ Len(roll_path) = sim.roll_max_steps
    /\ ~stop_condition(Last(roll_path))

\* humidity outside [0, 1], or a temperature within 1 C of -243.5 C
InvalidWeather(a) ==
    \/ a.humidity < 0
    \/ a.humidity > 100
    \/ Abs(a.temperature_c + 2435) <= 10

\* a call is running or has returned, and its weather is in its domain
ValidCall == pc # "idle" /\ ~InvalidWeather(args)

\* C1: a shot that exhausts max_steps in either loop is returned with a
\* truncation flag set, next to its partial trajectory.
C1_TruncationFlagged ==
    (ValidCall /\ pc = "done" /\ (FlightTruncated \/ RollTruncated))
        => /\ "truncated" \in DOMAIN result
           /\ result.truncated = TRUE

\* C4: simulate_shot leaves every field of the instance as it found it: no
\* step of a call changes the simulator.
C4_SimUnchanged == [][sim' = sim]_vars

\* C5: the state handed to simulate_bounce_and_roll after a landing has
\* vertical coordinate exactly 0 (it is the interpolation of the last two
\* flight states at the crossing), and carry is measured at that state.
C5_HandoffAtGroundLevel ==
    /\ (ValidCall /\ pc = "ground" /\ step = 0 /\ roll_path = << >>
            /\ Last(flight_path).z < 0)
           => ball.z = 0
    /\ (ValidCall /\ pc = "done" /\ flight_path # << >>)
           => result.carry_2d_yards = dist_2d_yards(Last(flight_path))

\* C6: no state recorded in the ground trajectory has a negative vertical
\* coordinate.
C6_GroundNeverBelowZero ==
    ValidCall => \A i \in 1..Len(roll_path) : roll_path[i].z >= 0

\* C7: each loop makes at most max_steps passes, one recorded state per pass,
\* and a returned trajectory has at least one state.
C7_LoopsBounded ==
    /\ Len(flight_path) <= sim.flight_max_steps
    /\ Len(roll_path) <= sim.roll_max_steps
    /\ pc = "flight" => step = Len(flight_path)
    /\ pc = "ground" => step = Len(roll_path)
    /\ FlightReturned => Len(flight_path) >= 1
    /\ GroundReturned => Len(roll_path) >= 1

\* a flight that used every pass without landing, followed by a ground run
\* that returned
C7_Witness ==
    /\ pc = "aggregate"
    /\ FlightTruncated
    /\ Len(roll_path) >= 1

\* C8: the total distance of a shot is never less than its carry, whatever
\* the wind; stated here for the shots with valid weather whose two loops
\* ended by their own conditions.
C8_RollNeverNegative ==
    (ValidCall /\ pc = "done" /\ ~FlightTruncated /\ ~RollTruncated)
        => result.total_2d_yards >= result.carry_2d_yards

\* C9: a call with invalid weather never returns a result dictionary.
C9_InvalidWeatherRejected ==
    ~(pc = "done" /\ InvalidWeather(args) /\ "carry_2d_yards" \in DOMAIN result)

\* the ground loop is about to make a pass that takes the bounce branch
\* (bounce_roll.py 48, 53, 56, 57)
BouncePass ==
    /\ pc = "ground"
    /\ step < sim.roll_max_steps
    /\ ~(speed_h(ball) < 50 /\ Abs(ball.vz) < 50)
    /\ ball.z <= 0
    /\ Abs(ball.vz) > 100

RollPass ==
    /\ pc = "ground"
    /\ step < sim.roll_max_steps
    /\ ~(speed_h(ball) < 50 /\ Abs(ball.vz) < 50)
    /\ ball.z <= 0
    /\ ~(Abs(ball.vz) > 100)
    /\ ~(speed_h(ball) > RDiv(ball.bs * sim.ball_radius, 100000) + 100)

\* C13: in every roll step neither horizontal velocity component changes
\* sign, neither grows in magnitude, the horizontal speed does not grow, and
\* the step leaves the vertical velocity and the vertical coordinate at 0.
C13_RollNeverReverses ==
    [][RollPass =>
          /\ ball'.vx * ball.vx >= 0
          /\ ball'.vy * ball.vy >= 0
          /\ Abs(ball'.vx) <= Abs(ball.vx)
          /\ Abs(ball'.vy) <= Abs(ball.vy)
          /\ speed_h(ball') <= speed_h(ball)
          /\ ball'.vz = 0
          /\ ball'.z = 0]_vars

\* the ground loop has just made a roll step in which a moving component was
\* set to exactly 0: the state recorded last is the one before the step
C13_Witness ==
    /\ pc = "ground"
    /\ roll_path # << >>
    /\ Last(roll_path).z <= 0
    /\ Abs(Last(roll_path).vz) <= 100
    /\ speed_h(Last(roll_path)) <= RDiv(Last(roll_path).bs * sim.ball_radius, 100000) + 100
    /\ ~stop_condition(Last(roll_path))
    /\ Last(roll_path).vx # 0
    /\ ball.vx = 0
    /\ ball.vz = 0
    /\ ball.z = 0

\* the spins of the states a shot has recorded so far, flight first
SpinHistory ==
    [ i \in 1..(Len(flight_path) + Len(roll_path)) |->
        IF i <= Len(flight_path) THEN flight_path[i]
        ELSE roll_path[i - Len(flight_path)] ]

\* C14: with the decay constants of __init__, from each recorded state of a
\* shot to the next, flight and ground trajectories taken one after the other,
\* |backspin| and |sidespin| never increase.
C14_SpinNeverGrows ==
    \A i \in 1..(Len(SpinHistory) - 1) :
        /\ Abs(SpinHistory[i + 1].bs) <= Abs(SpinHistory[i].bs)
        /\ Abs(SpinHistory[i + 1].ss) <= Abs(SpinHistory[i].ss)

\* a returned shot with positive backspin and negative sidespin, both smaller
\* in magnitude at the end of the ground trajectory than at launch
C14_Witness ==
    /\ pc = "done"
    /\ flight_path # << >>
    /\ roll_path # << >>
    /\ flight_path[1].bs > 0
    /\ flight_path[1].ss < 0
    /\ Abs(Last(roll_path).bs) < Abs(flight_path[1].bs)
    /\ Abs(Last(roll_path).ss) < Abs(flight_path[1].ss)

\* C15: every state of the flight trajectory except the last has vertical
\* coordinate >= 0: at most the final state lies below ground.
C15_OnlyLastFlightStateBelowGround ==
    \A i \in 1..(Len(flight_path) - 1) : flight_path[i].z >= 0

\* simulate_flight has returned a trajectory of several states that rose
\* above the ground and ended below it
C15_Witness ==
    /\ pc = "handoff"
    /\ Len(flight_path) >= 3
    /\ flight_path[2].z > 0
    /\ Last(flight_path).z < 0

\* horizontal speed below 0.05 m/s and vertical speed magnitude below 0.05 m/s
AtRest(b) == Isqrt(b.vx * b.vx + b.vy * b.vy) < 50 /\ Abs(b.vz) < 50

\* C16: the ground loop stops at the first recorded state that is at rest:
\* no recorded state before the last is at rest, a last recorded state at rest
\* ends the loop, and a loop that ended before max_steps ended at rest.
C16_StopsAtFirstRest ==
    /\ \A i \in 1..(Len(roll_path) - 1) : ~AtRest(roll_path[i])
    /\ (roll_path # << >> /\ AtRest(Last(roll_path)))
           => pc \in {"aggregate", "done"}
    /\ (pc \in {"aggregate", "done"} /\ roll_path # << >>
            /\ Len(roll_path) < sim.roll_max_steps)
           => AtRest(Last(roll_path))

\* simulate_bounce_and_roll has returned, before max_steps, a trajectory that
\* bounced and ends at rest
C16_Witness ==
    /\ pc = "aggregate"
    /\ Len(roll_path) >= 3
    /\ Len(roll_path) < sim.roll_max_steps
    /\ Abs(roll_path[1].vz) > 100
    /\ AtRest(Last(roll_path))

\* the (friction, restitution) pair the claim gives for a surface string
SurfacePair(surface_type) ==
    CASE surface_type \in {"fairway"}        -> << 350, 400 >>
      [] surface_type \in {"rough"}          -> << 300, 350 >>
      [] surface_type \in {"green", "Green"} -> << 450, 300 >>
      [] OTHER                               -> << 350, 400 >>

\* C17: the ground loop runs with the pair (0.35, 0.40) on fairway,
\* (0.30, 0.35) on rough, (0.45, 0.30) on green whatever the case of the
\* string, and the fairway pair on every other surface string.
C17_SurfaceTable ==
    pc = "ground" =>
        << GroundParams.current_friction, GroundParams.current_restitution >>
            = SurfacePair(args.surface_type)

\* a ball has just bounced on an unknown surface with the restitution of the
\* fairway
C17_Witness ==
    /\ pc = "ground"
    /\ args.surface_type = "bunker"
    /\ GroundParams.current_friction = 350
    /\ roll_path # << >>
    /\ Last(roll_path).vz < -100
    /\ ball.vz = RDiv(-Last(roll_path).vz * 400, 1000)

\* the horizontal distance from the origin of a state in metres, in yards
HorizontalYards(b) ==
    Isqrt(to_yards(b.x) * to_yards(b.x) + to_yards(b.y) * to_yards(b.y))

\* C20: a returned shot has carry = the horizontal distance from the origin
\* of the last flight state, total = that of the last ground state,
\* roll = total - carry, final position = the position of the last ground
\* state (the last entry of the returned ground trajectory), and final spin =
\* that state's spin in RPM.
C20_Aggregation ==
    (pc = "done" /\ flight_path # << >> /\ roll_path # << >>) =>
        /\ result.carry_2d_yards = HorizontalYards(Last(flight_path))
        /\ result.total_2d_yards = HorizontalYards(Last(roll_path))
        /\ result.roll_2d_yards = result.total_2d_yards - result.carry_2d_yards
        /\ result.carry_2d_yards + result.roll_2d_yards = result.total_2d_yards
        /\ result.final_position_yards
               = << to_yards(Last(roll_path).x), to_yards(Last(roll_path).y),
                    to_yards(Last(roll_path).z) >>
        /\ result.final_position_yards
               = << Last(result.roll_path_yards).x, Last(result.roll_path_yards).y,
                    Last(result.roll_path_yards).z >>
        /\ result.final_spin
               = << RDiv(Last(roll_path).bs * 600, 6283),
                    RDiv(Last(roll_path).ss * 600, 6283) >>

\* a returned shot that flew, landed off the x axis, moved on along the ground
\* and still spins
C20_Witness ==
    /\ pc = "done"
    /\ Len(flight_path) >= 3
    /\ Len(roll_path) >= 3
    /\ Last(flight_path).y # 0
    /\ result.carry_2d_yards > 0
    /\ result.roll_2d_yards > 0
    /\ result.total_2d_yards = result.carry_2d_yards + result.roll_2d_yards
    /\ result.final_spin[1] > 0
    /\ result.final_spin[2] # 0

\* the flight loop is about to make a pass with the ball at rest in the air
\* around it (flight_model.py 85, 90, 94-99)
ZeroAirspeedPass ==
    /\ pc = "flight"
    /\ step < sim.flight_max_steps
    /\ ~(ball.z < 0)
    /\ ball.vx = FlightParams.wind_vx
    /\ ball.vy = FlightParams.wind_vy
    /\ ball.vz = 0

\* C24: no pass of the flight loop ends in a division by zero, and a pass made
\* at relative airspeed 0 completes with no drag acceleration: the horizontal
\* velocity is unchanged and the vertical one changes by gravity alone.
C24_FlightNeverDividesByZero ==
    [][/\ pc = "flight" => pc' # "raised"
       /\ ZeroAirspeedPass =>
              /\ pc' = "flight"
              /\ step' = step + 1
              /\ ball'.vx = ball.vx
              /\ ball'.vy = ball.vy
              /\ ball'.vz = ball.vz - RDiv(sim.gravity * sim.flight_time_step, 1000)]_vars

\* a club at rest in still air: the first pass of the flight loop was made at
\* relative airspeed 0 and has left the ball falling straight down
C24_Witness ==
    /\ pc = "flight"
    /\ step = 1
    /\ Len(flight_path) = 1
    /\ flight_path[1].vx = FlightParams.wind_vx
    /\ flight_path[1].vy = FlightParams.wind_vy
    /\ flight_path[1].vz = 0
    /\ ball.vx = flight_path[1].vx
    /\ ball.vy = flight_path[1].vy
    /\ ball.vz < 0

\* the ground loop is about to make a pass that takes the slide branch
\* (bounce_roll.py 48, 53, 56, 57, 87, 88)
SlidePass ==
    /\ pc = "ground"
    /\ step < sim.roll_max_steps
    /\ ~(speed_h(ball) < 50 /\ Abs(ball.vz) < 50)
    /\ ball.z <= 0
    /\ ~(Abs(ball.vz) > 100)
    /\ speed_h(ball) > RDiv(ball.bs * sim.ball_radius, 100000) + 100

\* C28: the ground loop never divides by zero: the slide branch, which divides
\* by the horizontal speed, is taken only with horizontal speed > 0, and no
\* call ends with ZeroDivisionError in its ground phase.
C28_SlideNeverDividesByZero ==
    /\ SlidePass => speed_h(ball) > 0
    /\ ~(pc = "raised" /\ roll_path # << >>)

\* the branch the pass that recorded the i-th ground state went on to take,
\* "stop" when the pass ended the loop
BranchTaken(i) ==
    IF stop_condition(roll_path[i]) THEN "stop"
    ELSE ground_branch(roll_path[i], GroundParams)

\* C25: ground phases only advance: after a pass that took the roll branch no
\* later pass takes the slide or the bounce branch, and after a pass that took
\* the slide branch no later pass takes the bounce branch.
\* Stated of the newest recorded state against every earlier one: each
\* earlier pair was the newest pair of an earlier state of the same run.
C25_PhasesOnlyAdvance ==
    \A i \in 1..(Len(roll_path) - 1) :
        /\ BranchTaken(i) = "roll"
               => BranchTaken(Len(roll_path)) \notin {"slide", "bounce"}
        /\ BranchTaken(i) = "slide"
               => BranchTaken(Len(roll_path)) # "bounce"

\* a returned ground trajectory that bounced, then slid, then rolled to rest
C25_Witness ==
    /\ pc = "aggregate"
    /\ stop_condition(Last(roll_path))
    /\ \E i \in 1..Len(roll_path) : \E j \in (i + 1)..Len(roll_path) :
           \E k \in (j + 1)..Len(roll_path) :
               /\ BranchTaken(i) = "bounce"
               /\ BranchTaken(j) = "slide"
               /\ BranchTaken(k) = "roll"

\* C26: the bounce branch is taken only by a ball moving downward, and right
\* after every bounce the vertical velocity is upward or 0.
C26_BounceLeavesBallRising ==
    [][BouncePass => (ball.vz < 0 /\ ball'.vz >= 0)]_vars

\* C27: a ground loop that ended by its stop condition ended with the ball
\* on the ground: the last state has vertical coordinate 0.
C27_RestsOnGround ==
    (pc \in {"aggregate", "done"} /\ roll_path # << >>
        /\ AtRest(Last(roll_path)))
        => Last(roll_path).z = 0

\* C29: the two trajectories of a shot join without a gap: once the ground
\* loop has returned after a flight it has recorded a state, and the first
\* ground state is the last flight state in position, velocity and both
\* spins, in metres and in the yards of the returned dictionary.
C29_TrajectoriesJoin ==
    /\ (pc \in {"aggregate", "done"} /\ flight_path # << >>) => roll_path # << >>
    /\ roll_path # << >> => roll_path[1] = flight_path[Len(flight_path)]
    /\ (pc = "done" /\ flight_path # << >>)
           => result.roll_path_yards[1]
                  = result.flight_path_yards[Len(result.flight_path_yards)]

\* a returned shot that landed below ground, moving and spinning, and went on
\* from that state
C29_Witness ==
    /\ pc = "done"
    /\ Len(flight_path) >= 3
    /\ Len(roll_path) >= 3
    /\ Last(flight_path).z < 0
    /\ Last(flight_path).vx # 0
    /\ Last(flight_path).bs # 0
    /\ roll_path[1] = Last(flight_path)

\* the positions and velocities of a trajectory, spins left out
pos_vel(path) ==
    [ i \in 1..Len(path) |-> << path[i].x, path[i].y, path[i].z,
                                path[i].vx, path[i].vy, path[i].vz >> ]

\* other sidespins the same strike could have launched with (0.1 RPM)
OtherSidespins == { 0, 30000, -impact.sidespin_rpm } \ { impact.sidespin_rpm }

\* the flight trajectory of the running shot had it launched with sidespin r
flight_with_sidespin(r) ==
    flight_loop(flight_start(impact.launch_speed, impact.launch_angle_vert,
                             impact.launch_angle_horiz, impact.backspin_rpm, r),
                << >>, 0, FlightParams)

\* C30: sidespin never influences the path: a shot whose launch conditions
\* differ from the finished shot's only in sidespin has the same positions
\* and velocities, state by state, in the flight trajectory and in the
\* ground trajectory.
C30_SidespinNeverBendsThePath ==
    (pc = "aggregate" /\ flight_path # << >>)
        => \A r \in OtherSidespins :
               /\ pos_vel(flight_with_sidespin(r)) = pos_vel(flight_path)
               /\ pos_vel(ground_loop(last_flight(flight_with_sidespin(r)),
                                      << >>, 0, GroundParams))
                      = pos_vel(roll_path)

\* a finished shot launched with sidespin that flew, landed still spinning
\* sideways, and bounced or rolled on
C30_Witness ==
    /\ pc = "aggregate"
    /\ impact.sidespin_rpm # 0
    /\ Len(flight_path) >= 3
    /\ Len(roll_path) >= 3
    /\ Last(flight_path).ss # 0
    /\ Last(roll_path).ss # Last(flight_path).ss
    /\ flight_with_sidespin(0) # flight_path

\* ----------------------------------------- compute_impact as a pure function

ImpactInputs ==
    [ club_speed_mps          : {1000, 40000, 70000},
      club_loft_deg           : {0, 10, 60},
      club_face_angle_deg     : {-180, -10, 0, 10},
      horizontal_offset_cm    : {-2, 0, 2},
      vertical_offset_cm      : {-1, 0, 1},
      ball_compression_rating : {800, 1000},
      base_cor                : {830},
      base_smash_factor       : {1500},
      toe_gear_rpm_cm         : {80, 120},
      vert_gear_rpm_cm        : {60, 80} ]

InitImpact ==
    /\ InitShot
    /\ gen = NoRun
    /\ ci_in \in ImpactInputs
    /\ ci_out = NoImpact

\* compute_impact is called on ci_in
ApplyImpact ==
    /\ ci_out = NoImpact
    /\ ci_out' = compute_impact(ci_in.club_speed_mps, ci_in.club_loft_deg,
                                ci_in.club_face_angle_deg,
                                ci_in.horizontal_offset_cm,
                                ci_in.vertical_offset_cm,
                                ci_in.ball_compression_rating, ci_in.base_cor,
                                ci_in.base_smash_factor, ci_in.toe_gear_rpm_cm,
                                ci_in.vert_gear_rpm_cm)
    /\ UNCHANGED << sim, pc, args, impact, ball, step, flight_path, roll_path,
                    result, memo, threads, ci_in, fm, gen >>

NextImpact == ApplyImpact

SpecImpact == InitImpact /\ [][NextImpact]_vars

\* C10: with face angle 0 and horizontal offset 0, compute_impact returns
\* sidespin exactly 0 for every club speed, loft, vertical offset, compression
\* rating and gear-ratio pair.
C10_SquareCentredNoSidespin ==
    (ci_out # NoImpact /\ ci_in.club_face_angle_deg = 0
        /\ ci_in.horizontal_offset_cm = 0)
        => ci_out.sidespin_rpm = 0

\* a square, centred strike whose gear-ratio formula alone gives sidespin
C10_Witness ==
    /\ ci_out # NoImpact
    /\ ci_in.club_face_angle_deg = 0
    /\ ci_in.horizontal_offset_cm = 0
    /\ ci_in.club_speed_mps * ci_in.toe_gear_rpm_cm * ci_in.club_loft_deg > 0
    /\ ci_out.sidespin_rpm = 0

\* C22: with horizontal offset 0 and a face angle other than 0, the sidespin
\* compute_impact returns has the sign of the face angle: positive for an open
\* face, negative for a closed one.
C22_SidespinSignOfFace ==
    (ci_out # NoImpact /\ ci_in.horizontal_offset_cm = 0
        /\ ci_in.club_face_angle_deg # 0)
        => /\ ci_in.club_face_angle_deg > 0 => ci_out.sidespin_rpm > 0
           /\ ci_in.club_face_angle_deg < 0 => ci_out.sidespin_rpm < 0

\* C11: whatever its arguments, compute_impact returns backspin_rpm at most
\* MAX_BACKSPIN_RPM and sidespin_rpm between -MAX_SIDESPIN_RPM and
\* MAX_SIDESPIN_RPM.
C11_SpinWithinCaps ==
    ci_out # NoImpact
        => /\ ci_out.backspin_rpm <= MAX_BACKSPIN_RPM
           /\ ci_out.sidespin_rpm <= MAX_SIDESPIN_RPM
           /\ ci_out.sidespin_rpm >= -MAX_SIDESPIN_RPM

\* a strike whose backspin and sidespin formulas both exceed their maxima
C11_Witness ==
    /\ ci_out # NoImpact
    /\ impact_backspin(ci_in.club_speed_mps, ci_in.club_loft_deg,
                       ci_in.vertical_offset_cm, ci_in.ball_compression_rating,
                       ci_in.vert_gear_rpm_cm) > MAX_BACKSPIN_RPM
    /\ impact_sidespin(ci_in.club_speed_mps, ci_in.club_loft_deg,
                       ci_in.club_face_angle_deg, ci_in.horizontal_offset_cm,
                       ci_in.ball_compression_rating, ci_in.toe_gear_rpm_cm)
           > MAX_SIDESPIN_RPM
    /\ ci_out.backspin_rpm = MAX_BACKSPIN_RPM
    /\ ci_out.sidespin_rpm = MAX_SIDESPIN_RPM

\* ------------------------------------------- whole calls, one after another

CallShots ==
    [ club_speed_mps       : {1000},
      club_loft_deg        : {0, 30},
      club_face_angle_deg  : {0, 10},
      horizontal_offset_cm : {0},
      vertical_offset_cm   : {0},
      wind_speed_mps       : {0, 20000},
      wind_dir_deg         : {180},
      temperature_c        : {200},
      humidity             : {50},
      elevation_m          : {0, 2000},
      surface_type         : {"fairway"},
      club_type            : ClubTypes ]

\* one whole simulate_shot call on the instance
CallWhole(a) ==
    /\ pc = "idle"
    /\ \E r \in {simulate_shot(a, sim)} :
           /\ sim' = r.sim
           /\ result' = r.result
    /\ args' = a
    /\ pc' = "done"
    /\ UNCHANGED << impact, ball, step, flight_path, roll_path, others >>

\* the caller keeps the arguments and the result of a call for later
Remember ==
    /\ pc = "done"
    /\ memo = NoMemo
    /\ memo' = [ args |-> args, result |-> result ]
    /\ UNCHANGED << sim, pc, args, impact, ball, step, flight_path, roll_path,
                    result, threads, ci_in, ci_out, fm, gen >>

NextCalls ==
    \/ \E a \in CallShots : CallWhole(a)
    \/ Remember
    \/ Release

SpecCalls == Init /\ [][NextCalls]_vars

\* C3: after any sequence of earlier calls on the instance, a call returns
\* what an earlier call with equal arguments returned.
C3_EqualArgsEqualResults ==
    (pc = "done" /\ memo # NoMemo /\ memo.args = args) => memo.result = result

\* a call with an unknown club type (the else branch of set_gear_ratios) has
\* returned, with spin from the gear ratios, what a remembered call with the
\* same arguments returned
C3_Witness ==
    /\ pc = "done"
    /\ memo # NoMemo
    /\ memo.args = args
    /\ args.club_type = "putter"
    /\ memo.result = result
    /\ result.impact_result.backspin_rpm > 0

\* the (vert_gear_rpm_cm, toe_gear_rpm_cm) pair the claim gives for a club
GearPair(club_type) ==
    CASE club_type \in {"driver", "Driver"} -> << 60, 80 >>
      [] club_type \in {"iron"}             -> << 80, 120 >>
      [] OTHER                              -> << 80, 120 >>

\* C18: after a call the instance holds the gear ratios (60, 80) for a
\* driver, whatever the case of the string, (80, 120) for an iron and
\* (80, 120) for every other club type, whatever ratios the call found.
C18_GearThreeWay ==
    pc = "done" =>
        << sim.vert_gear_rpm_cm, sim.toe_gear_rpm_cm >> = GearPair(args.club_type)

\* a call with an unknown club type, made after a driver call was remembered,
\* has left the instance with the iron's ratios
C18_Witness ==
    /\ pc = "done"
    /\ memo # NoMemo
    /\ memo.args.club_type = "Driver"
    /\ memo.args.club_loft_deg > 0
    /\ memo.result.impact_result.backspin_rpm
           = impact_backspin(memo.args.club_speed_mps, memo.args.club_loft_deg,
                             memo.args.vertical_offset_cm,
                             sim.ball_compression_rating, 60)
    /\ args.club_type = "putter"
    /\ sim.vert_gear_rpm_cm = 80
    /\ sim.toe_gear_rpm_cm = 120


\* the air density calculate_air_density gives for the weather of a call
AirDensity(a) == calculate_air_density(a.temperature_c, a.humidity, a.elevation_m)

\* two calls that differ at most in temperature, humidity and elevation
SameButWeather(a, b) ==
    [ a EXCEPT !.temperature_c = b.temperature_c,
               !.humidity      = b.humidity,
               !.elevation_m   = b.elevation_m ] = b

\* C19: the drag and lift forces of the flight are proportional to the air
\* density of the shot's weather: of two calls that differ only in weather and
\* whose densities differ, the flights of a moving ball differ.
C19_DragFollowsDensity ==
    (pc = "done" /\ memo # NoMemo /\ SameButWeather(memo.args, args)
        /\ AirDensity(memo.args) # AirDensity(args)
        /\ args.club_speed_mps > 0)
        => memo.result.flight_path_yards # result.flight_path_yards

\* -------------------------------------------- concurrent calls, interleaved

ConcShots ==
    [ club_speed_mps       : {1000},
      club_loft_deg        : {0, 30},
      club_face_angle_deg  : {0, 10},
      horizontal_offset_cm : {0},
      vertical_offset_cm   : {0},
      wind_speed_mps       : {0},
      wind_dir_deg         : {180},
      temperature_c        : {200},
      humidity             : {50},
      elevation_m          : {0},
      surface_type         : {"fairway"},
      club_type            : {"Driver", "iron"} ]

rest == << pc, args, impact, ball, step, flight_path, roll_path, result, memo,
           ci_in, ci_out, fm, gen >>

\* thread t enters simulate_shot(a)
T_Call(t, a) ==
    /\ threads[t].pc = "idle"
    /\ threads' = [threads EXCEPT ![t].pc = "set_vert", ![t].args = a]
    /\ UNCHANGED << sim, rest >>

\* set_gear_ratios: self.vert_gear_rpm_cm = ...
T_SetVert(t) ==
    /\ threads[t].pc = "set_vert"
    /\ sim' = [sim EXCEPT !.vert_gear_rpm_cm = gear_vert(threads[t].args.club_type)]
    /\ threads' = [threads EXCEPT ![t].pc = "set_toe"]
    /\ UNCHANGED rest

\* set_gear_ratios: self.toe_gear_rpm_cm = ...
T_SetToe(t) ==
    /\ threads[t].pc = "set_toe"
    /\ sim' = [sim EXCEPT !.toe_gear_rpm_cm = gear_toe(threads[t].args.club_type)]
    /\ threads' = [threads EXCEPT ![t].pc = "read_toe"]
    /\ UNCHANGED rest

\* the argument toe_gear_rpm_cm=self.toe_gear_rpm_cm is evaluated
T_ReadToe(t) ==
    /\ threads[t].pc = "read_toe"
    /\ threads' = [threads EXCEPT ![t].pc = "read_vert",
                                  ![t].toe = sim.toe_gear_rpm_cm]
    /\ UNCHANGED << sim, rest >>

\* the argument vert_gear_rpm_cm=self.vert_gear_rpm_cm is evaluated
T_ReadVert(t) ==
    /\ threads[t].pc = "read_vert"
    /\ threads' = [threads EXCEPT ![t].pc = "run",
                                  ![t].vert = sim.vert_gear_rpm_cm]
    /\ UNCHANGED << sim, rest >>

\* the rest of the call: compute_impact, the flight, the ground and the
\* summary, which write no field of the instance
T_Run(t) ==
    /\ threads[t].pc = "run"
    /\ threads' = [threads EXCEPT
           ![t].pc = "done",
           ![t].result = shot_after_impact(
                             threads[t].args,
                             shot_impact(threads[t].args, sim, threads[t].toe,
                                         threads[t].vert),
                             sim)]
    /\ UNCHANGED << sim, rest >>

NextConc ==
    \E t \in Threads :
        \/ \E a \in ConcShots : T_Call(t, a)
        \/ T_SetVert(t)
        \/ T_SetToe(t)
        \/ T_ReadToe(t)
        \/ T_ReadVert(t)
        \/ T_Run(t)

SpecConc == Init /\ [][NextConc]_vars

\* C2: under every interleaving, each concurrent call on the shared instance
\* returns what the same call returns when run alone.
C2_ConcurrentAsAlone ==
    \A t \in Threads :
        threads[t].pc = "done"
            => threads[t].result = simulate_shot(threads[t].args, NewSim).result


\* ------------------------------------------- FlightModule, the Euler flight
\* flight.py works on numpy vectors (x, y, z) with y vertical.  Here lengths
\* are cm, velocities cm/s, accelerations cm/s^2, spin rad/s, forces 1e-7 N,
\* air density 1e-3 kg/m^3, the drag coefficient 1e-2, the Magnus
\* coefficient 1e-6 and the area 1e-7 m^2.

GRAVITY == << 0, -981, 0 >>
BALL_MASS == 4593
BALL_AREA == 14320
TIME_STEP == 5
DEFAULT_DRAG_COEFF == 25
DEFAULT_MAGNUS_COEFF == 100

IndexError == [ error |-> "IndexError" ]

\* np.linalg.norm
norm(v) == Isqrt(v[1] * v[1] + v[2] * v[2] + v[3] * v[3])

\* np.cross
cross(a, b) ==
    << a[2] * b[3] - a[3] * b[2],
       a[3] * b[1] - a[1] * b[3],
       a[1] * b[2] - a[2] * b[1] >>

\* 0.5 * air_density * drag_coefficient * BALL_AREA, in 1e-7 kg/m
half_rho_cd_area(m) ==
    RDiv(RDiv(m.air_density * m.drag_coefficient, 2) * BALL_AREA, 100000)

\* FlightModule.aerodynamic_forces
aerodynamic_forces(velocity, spin, m) ==
    LET v_rel  == [ i \in 1..3 |-> velocity[i] - m.wind[i] ]
        v_mag  == norm(v_rel)
        drag   == IF v_mag = 0
                  THEN << 0, 0, 0 >>
                  ELSE [ i \in 1..3 |->
                           -RDiv(RDiv(v_mag * v_rel[i], 100) * half_rho_cd_area(m),
                                 100) ]
        sxv    == cross(spin, velocity)
        magnus == [ i \in 1..3 |-> RDiv(m.magnus_coefficient * sxv[i], 10) ]
    IN  [ i \in 1..3 |-> drag[i] + magnus[i] ]

\* self.vel after one pass of the loop (lines 52-54)
euler_vel(m) ==
    LET aero == aerodynamic_forces(m.vel, m.spin, m)
        acceleration == [ i \in 1..3 |-> GRAVITY[i] + RDiv(aero[i], BALL_MASS) ]
    IN  [ i \in 1..3 |-> m.vel[i] + RDiv(acceleration[i] * m.dt, 1000) ]

\* self.pos after one pass of the loop (line 55)
euler_pos(m) ==
    [ i \in 1..3 |-> m.pos[i] + RDiv(euler_vel(m)[i] * m.dt, 1000) ]

\* the condition of the while loop (line 51)
while_condition(m) == m.pos[2] >= 0

\* the break inside the loop (lines 63-64)
break_condition(pos, vel) == pos[2] < 0 /\ vel[2] < 0

\* the interpolation to y = 0 (lines 67-74)
ground_pos(positions) ==
    LET pos_last  == positions[Len(positions) - 1]
        pos_final == positions[Len(positions)]
        y1 == pos_last[2]
        y2 == pos_final[2]
    IN  IF y1 # y2
        THEN [ i \in 1..3 |->
                 pos_last[i] + (IF y1 > y2
                                THEN RDiv(y1 * (pos_final[i] - pos_last[i]), y1 - y2)
                                ELSE -RDiv(y1 * (pos_final[i] - pos_last[i]), y2 - y1)) ]
        ELSE pos_final

\* the inputs of the constructor
EulerPositions  == { << 0, 0, 0 >>, << 0, -1, 0 >> }
EulerVelocities == { << 0, 0, 0 >>, << 1000, 1000, 0 >>, << 0, 1500, 0 >>,
                     << 3000, 500, 0 >> }
EulerSpins      == { << 0, 0, 0 >>, << 0, 0, 100 >> }
EulerWinds      == { << 0, 0, 0 >>, << 500, 0, 0 >>, << 0, 6000, 0 >> }
EulerSteps      == { 40 * TIME_STEP, 200 * TIME_STEP }

\* FlightModule.__init__ (lines 12-28)
FlightModuleInit(position, velocity, spin, wind, dt) ==
    /\ fm = NoFlightModule
    /\ fm' = [ pc                 |-> "loop",
               dt                 |-> dt,
               pos                |-> position,
               vel                |-> velocity,
               spin               |-> spin,
               air_density        |-> 1225,
               wind               |-> wind,
               drag_coefficient   |-> DEFAULT_DRAG_COEFF,
               magnus_coefficient |-> DEFAULT_MAGNUS_COEFF,
               positions          |-> << position >>,
               velocities         |-> << velocity >>,
               final_state        |-> NoResult ]
    /\ UNCHANGED << sim, pc, args, impact, ball, step, flight_path, roll_path,
                    result, memo, threads, ci_in, ci_out, gen >>

\* one pass of the while loop of simulate (lines 51-64), followed for
\* EulerHorizon passes
SimulateStep ==
    /\ fm.pc = "loop"
    /\ while_condition(fm)
    /\ Len(fm.positions) <= EulerHorizon
    /\ fm' = [ fm EXCEPT !.vel        = euler_vel(fm),
                         !.pos        = euler_pos(fm),
                         !.positions  = Append(@, euler_pos(fm)),
                         !.velocities = Append(@, euler_vel(fm)),
                         !.pc         = IF break_condition(euler_pos(fm),
                                                           euler_vel(fm))
                                        THEN "exit" ELSE "loop" ]
    /\ UNCHANGED << sim, pc, args, impact, ball, step, flight_path, roll_path,
                    result, memo, threads, ci_in, ci_out, gen >>

\* the loop is left: the interpolation and the return (lines 66-85);
\* positions[-2] raises when the loop made no pass
SimulateReturn ==
    /\ \/ fm.pc = "exit"
       \/ fm.pc = "loop" /\ ~while_condition(fm)
    /\ IF Len(fm.positions) < 2
       THEN fm' = [ fm EXCEPT !.pc = "raised", !.final_state = IndexError ]
       ELSE fm' = [ fm EXCEPT !.pc = "returned",
                              !.final_state =
                                  [ position |-> ground_pos(fm.positions),
                                    velocity |-> fm.velocities[Len(fm.velocities) - 1] ] ]
    /\ UNCHANGED << sim, pc, args, impact, ball, step, flight_path, roll_path,
                    result, memo, threads, ci_in, ci_out, gen >>

NextEuler ==
    \/ \E position \in EulerPositions, velocity \in EulerVelocities,
          spin \in EulerSpins, wind \in EulerWinds, dt \in EulerSteps :
           FlightModuleInit(position, velocity, spin, wind, dt)
    \/ SimulateStep
    \/ SimulateReturn

SpecEuler == Init /\ [][NextEuler]_vars

\* the loop is in a state it can never leave: the ball at or above the
\* ground, not falling, and a pass of the loop leaves its velocity as it is,
\* so every later pass finds the same velocity and a height no lower
NeverLands ==
    /\ fm.pc = "loop"
    /\ while_condition(fm)
    /\ fm.vel[2] >= 0
    /\ euler_vel(fm) = fm.vel

\* C23: FlightModule.simulate always terminates, also for inputs where the
\* ball never drops below ground level: its loop is never in a state from
\* which no later pass can leave it.
C23_EulerFlightTerminates == ~NeverLands

\* once the loop cannot be left it still cannot be left after another pass
NeverLandsIsClosed == [][NeverLands => NeverLands']_vars

\* flights that land do return
EulerLanded == fm.pc = "returned" /\ Len(fm.positions) >= 4


\* ------------------------------------------------- generate_massive_data
\* The file is the sequence of the rows it holds.  The lists the loops run
\* over are cut to their first elements, except the two innermost.

KeyError == [ error |-> "KeyError" ]

\* the header row (lines 52-60)
Header ==
    << "club_name", "loft_deg", "club_speed_mps", "face_angle_deg",
       "horizontal_offset_cm", "vertical_offset_cm", "wind_speed_mps",
       "wind_dir_deg", "temperature_c", "humidity", "elevation_m",
       "final_x", "final_y", "final_z", "carry_2d", "roll_2d", "total_2d" >>

\* the head of each list of lines 14-48
clubs        == << << "Driver", 9, 12 >> >>
club_speeds  == << 20 >>
face_angles  == << -4 >>
h_offsets    == << -2 >>
v_offsets    == << -1 >>
wind_speeds  == << 0 >>
wind_dirs    == << 0 >>
temps        == << 10 >>
humidities   == << 20, 50, 80 >>
elevations   == << 0, 500, 1000 >>

\* the combinations in the order the nested loops visit them (lines 62-72)
GridLen == Len(humidities) * Len(elevations)

combination(i) ==
    [ club_name |-> clubs[1][1],
      loft_deg  |-> clubs[1][2],
      speed     |-> club_speeds[1],
      face_deg  |-> face_angles[1],
      hx        |-> h_offsets[1],
      vx        |-> v_offsets[1],
      wspd      |-> wind_speeds[1],
      wdir      |-> wind_dirs[1],
      t         |-> temps[1],
      hum       |-> humidities[((i - 1) \div Len(elevations)) + 1],
      elev      |-> elevations[((i - 1) % Len(elevations)) + 1] ]

\* the keyword arguments of the call at lines 74-85; surface_type and
\* club_type take the defaults of simulate_shot
shot_arguments(c) ==
    [ club_speed_mps       |-> c.speed * 1000,
      club_loft_deg        |-> c.loft_deg,
      club_face_angle_deg  |-> c.face_deg,
      horizontal_offset_cm |-> c.hx,
      vertical_offset_cm   |-> c.vx,
      wind_speed_mps       |-> c.wspd * 1000,
      wind_dir_deg         |-> c.wdir,
      temperature_c        |-> c.t * 10,
      humidity             |-> c.hum,
      elevation_m          |-> c.elev,
      surface_type         |-> "fairway",
      club_type            |-> "iron" ]

\* the keys lines 87-88 read from the result
keys_read == { "flight_path", "roll_path" }

\* the row of lines 90-113
data_row(c, r) ==
    LET carry == IF Len(r.flight_path) > 0
                 THEN Last(r.flight_path) ELSE << 0, 0, 0 >>
        final == IF Len(r.roll_path) > 0 THEN Last(r.roll_path) ELSE carry
        carry_2d == Isqrt(carry[1] * carry[1] + carry[2] * carry[2])
        total_2d == Isqrt(final[1] * final[1] + final[2] * final[2])
    IN  << c.club_name, c.loft_deg, c.speed, c.face_deg, c.hx, c.vx, c.wspd,
           c.wdir, c.t, c.hum, c.elev, final[1], final[2], final[3],
           carry_2d, total_2d - carry_2d, total_2d >>

\* what the file at output_csv can hold before the run
OldRows == { Header, << "Driver", 9 >>, << >> }
OldFiles == UNION { [ 1..n -> OldRows ] : n \in 0..MaxOldRows }

InitData ==
    /\ InitShot
    /\ ci_in = NoArgs
    /\ ci_out = NoImpact
    /\ gen \in [ pc : {"start"}, csv : OldFiles, combo : {1}, calls : {0},
                 error : {NoResult} ]

\* lines 11 and 50-60: the simulator is constructed, the file is opened for
\* writing, which empties it, and the header row is written
GenOpen ==
    /\ gen.pc = "start"
    /\ sim' = NewSim
    /\ gen' = [ gen EXCEPT !.pc = "loop", !.csv = << Header >> ]
    /\ UNCHANGED << pc, args, impact, ball, step, flight_path, roll_path,
                    result, memo, threads, ci_in, ci_out, fm >>

\* one pass of the innermost loop body (lines 73-113): the call, the two
\* reads of the result, the row
GenIterate ==
    /\ gen.pc = "loop"
    /\ gen.combo <= GridLen
    /\ LET c == combination(gen.combo)
           r == simulate_shot(shot_arguments(c), sim)
       IN  /\ sim' = r.sim
           /\ args' = shot_arguments(c)
           /\ result' = r.result
           /\ IF r.result = ZeroDivisionError
              THEN gen' = [ gen EXCEPT !.pc = "raised", !.calls = @ + 1,
                                       !.error = ZeroDivisionError ]
              ELSE IF ~(keys_read \subseteq DOMAIN r.result)
              THEN gen' = [ gen EXCEPT !.pc = "raised", !.calls = @ + 1,
                                       !.error = KeyError ]
              ELSE gen' = [ gen EXCEPT !.csv = Append(@, data_row(c, r.result)),
                                       !.calls = @ + 1,
                                       !.combo = @ + 1 ]
    /\ UNCHANGED << pc, impact, ball, step, flight_path, roll_path, memo,
                    threads, ci_in, ci_out, fm >>

NextData ==
    \/ GenOpen
    \/ GenIterate

SpecData == InitData /\ [][NextData]_vars

\* C21: for every combination it enumerates, generate_massive_data calls
\* simulate_shot once and writes exactly one row of 17 columns under the
\* header, reading the trajectories from the result of the call: the run
\* does not raise, and the file holds the header and one row per call made.
C21_OneRowPerShot ==
    gen.pc \in {"loop", "raised"}
        => /\ gen.pc # "raised"
           /\ gen.csv[1] = Header
           /\ Len(gen.csv) = 1 + gen.calls
           /\ \A i \in 2..Len(gen.csv) : Len(gen.csv[i]) = Len(Header)

\* the first call has returned its dictionary and no row was written for it
FirstShotLost ==
    /\ gen.pc = "raised"
    /\ gen.error = KeyError
    /\ gen.calls = 1
    /\ gen.csv = << Header >>
    /\ DOMAIN result = DOMAIN empty_result(NoImpact)

====
